---- MODULE Spec2Model ----
(***************************************************************************)
(* Main process of the resume parser (src/src/main/main.js): the model     *)
(* session singleton (llamaModel, llamaContext, chatSession), initModel,   *)
(* the window life cycle, the 'parse-resume-pdf' IPC handler and           *)
(* parseModelReplyToJson; and the renderer component that calls the        *)
(* handler (src/src/renderer/components/HelloWorld.vue).                   *)
(*                                                                         *)
(* Every `await` of the source is a suspension point: the code between two *)
(* awaits runs as one atomic step of the JavaScript event loop, and the    *)
(* settlement of an awaited promise resumes the caller in the same step.   *)
(***************************************************************************)
EXTENDS Integers, Sequences, FiniteSets, TLC

\* ------------------------------------------------------------------ bounds
\* Number of 'parse-resume-pdf' invocations the renderer side makes.
NumInv == 2
\* Largest batch (number of file paths of one invocation).
MaxBatch == 3
\* Times the user closes the window of a process that stays alive (macOS).
MaxCloses == 1
\* Times the user clicks the parse button of the renderer.
NumParse == 1

Inv == 1..NumInv
\* An initModel call is named by its caller: 0 is the start-up warm-up
\* (main.js:144), i >= 1 is the call made by handler invocation i (main.js:263).
WarmUp == 0
Callers == {WarmUp} \cup Inv
\* JavaScript null for the three module globals.
Null == -1

\* HelloWorld.vue:57: the most resumes one import takes.
MaxImport == 10

\* File paths are the document identities.  The batches a caller hands
\* over: n distinct paths, n in 0..MaxBatch.
Batch(n) == [j \in 1..n |-> j]
Batches == {Batch(n) : n \in 0..MaxBatch}

\* What the user may select in the dialog of 'select-resume-files': a full
\* import, one path too many, or a single path that is in neither.
Selections == {Batch(MaxImport), Batch(MaxImport + 1), <<MaxImport + 2>>}

VARIABLES
    platform,     \* process.platform: "darwin" or "other"
    app,          \* "starting" | "ready" | "quit"
    windows,      \* BrowserWindow.getAllWindows().length
    closes,       \* times the user has closed the window
    awaiting,     \* renderer of the window: the invocation it awaits, or 0
    modelFile,    \* fs.existsSync(userModelPath)
    llamaModel,   \* module global: Null or the initModel call that loaded it
    llamaContext, \* module global: Null or the call that created it
    chatSession,  \* module global: Null or the call that constructed it
    im,           \* im[c]: where initModel call c stands
    loaded,       \* calls whose llama.loadModel resolved (models in memory)
    history,      \* history[s]: documents in the conversation of session s
    inflight,     \* chatSession.prompt calls not yet settled: <<i, k, s>>
    pc,           \* pc[i]: where handler invocation i stands
    filePaths,    \* filePaths[i]: the batch of invocation i
    idx,          \* idx[i]: position of the loop of invocation i (1-based)
    nExtract,     \* nExtract[i]: extractTextFromResumeFile calls made
    nPrompt,      \* nPrompt[i]: chatSession.prompt calls made
    nTurn,        \* nTurn[i]: loop bodies run to their end (emission step)
    emitted,      \* emitted[i]: filePath of each 'resume-item-parsed' sent
    cause,        \* cause[i]: what made invocation i reject
    reply,        \* the text chatSession.prompt resolved with, by its parts
    parsed,       \* what parseModelReplyToJson returned for it, or Pending
    resumeItems,  \* renderer: filePath of each entry of the resume list
    importing,    \* renderer: importResumes awaits the file dialog
    cleared       \* renderer: clearResumes ran and no import since

sessionVars == <<llamaModel, llamaContext, chatSession, loaded>>
chatVars == <<history, inflight>>
handlerVars == <<pc, filePaths, idx, nExtract, nPrompt, nTurn, emitted, cause>>
envVars == <<platform, app, windows, closes, awaiting, modelFile>>
replyVars == <<reply, parsed>>
rendererVars == <<resumeItems, importing, cleared>>
vars == <<envVars, sessionVars, im, chatVars, handlerVars, replyVars, rendererVars>>

\* ------------------------------------------------------ the reply as text
\* A text is a sequence of one-character strings.
Q == "\""
NL == "\n"
\* The grave accent (U+0060), which a string of this language cannot hold:
\* the apostrophe, which no text below uses otherwise, stands for it.
Backtick == "'"
Fence == <<Backtick, Backtick, Backtick>>
Whitespace == {" ", NL}
Digit == {"0", "1", "2", "3", "4", "5", "6", "7", "8", "9"}

\* String.prototype.toLowerCase on the letters of the tag of main.js:32.
Lower(c) ==
    CASE c = "J" -> "j" [] c = "S" -> "s" [] c = "O" -> "o" [] c = "N" -> "n"
      [] OTHER -> c

LowerText(s) == [k \in 1..Len(s) |-> Lower(s[k])]

\* s.indexOf(w, p) with 1-based positions: 0 where JavaScript gives -1.
RECURSIVE IndexOf(_, _, _)
IndexOf(s, w, p) ==
    IF p + Len(w) - 1 > Len(s) THEN 0
    ELSE IF SubSeq(s, p, p + Len(w) - 1) = w THEN p
    ELSE IndexOf(s, w, p + 1)

\* s.lastIndexOf(c) searched downwards from position p.
RECURSIVE LastIndexOf(_, _, _)
LastIndexOf(s, c, p) ==
    IF p < 1 THEN 0
    ELSE IF s[p] = c THEN p
    ELSE LastIndexOf(s, c, p - 1)

\* ------------------------------------------------------------- JSON.parse
\* A JavaScript value is kept as its kind and its JSON text without
\* insignificant whitespace.  The grammar is that of JSON without escape
\* sequences, fractions, exponents and repeated keys, which no reply drawn
\* below holds.
JsValue(kind, text) == [kind |-> kind, text |-> text]
JsNull == JsValue("null", <<"n", "u", "l", "l">>)

\* What a failed parse step gives.
SyntaxError == [ok |-> FALSE, kind |-> "none", text |-> <<>>, next |-> 0]
Parsed(kind, text, next) == [ok |-> TRUE, kind |-> kind, text |-> text, next |-> next]

RECURSIVE SkipWs(_, _)
SkipWs(s, p) == IF p <= Len(s) /\ s[p] \in Whitespace THEN SkipWs(s, p + 1) ELSE p

\* Position of the quote that closes the string whose characters start at
\* p, or 0: a line break inside a string is a syntax error.
RECURSIVE StringEnd(_, _)
StringEnd(s, p) ==
    IF p > Len(s) \/ s[p] = NL THEN 0
    ELSE IF s[p] = Q THEN p
    ELSE StringEnd(s, p + 1)

RECURSIVE DigitsEnd(_, _)
DigitsEnd(s, p) == IF p <= Len(s) /\ s[p] \in Digit THEN DigitsEnd(s, p + 1) ELSE p

ParseString(s, p) ==
    LET e == StringEnd(s, p + 1)
    IN  IF e = 0 THEN SyntaxError ELSE Parsed("string", SubSeq(s, p, e), e + 1)

\* -? (0 | [1-9][0-9]*)
ParseNumber(s, p) ==
    LET d == IF s[p] = "-" THEN p + 1 ELSE p
        e == IF d <= Len(s) /\ s[d] = "0" THEN d + 1 ELSE DigitsEnd(s, d)
    IN  IF e = d THEN SyntaxError ELSE Parsed("number", SubSeq(s, p, e - 1), e)

ParseWord(s, p, word, kind) ==
    IF p + Len(word) - 1 <= Len(s) /\ SubSeq(s, p, p + Len(word) - 1) = word
    THEN Parsed(kind, word, p + Len(word))
    ELSE SyntaxError

RECURSIVE ParseValue(_, _)
RECURSIVE ParseMembers(_, _, _)
RECURSIVE ParseElements(_, _, _)

\* The members of an object from position p on, `acc` being the text of
\* the object so far.
ParseMembers(s, p, acc) ==
    LET k == SkipWs(s, p)
        key == IF k <= Len(s) /\ s[k] = Q THEN ParseString(s, k) ELSE SyntaxError
        colon == SkipWs(s, key.next)
        v == ParseValue(s, colon + 1)
        d == SkipWs(s, v.next)
        text == acc \o key.text \o <<":">> \o v.text
    IN  IF ~key.ok \/ colon > Len(s) \/ s[colon] # ":" THEN SyntaxError
        ELSE IF ~v.ok \/ d > Len(s) THEN SyntaxError
        ELSE IF s[d] = "," THEN ParseMembers(s, d + 1, text \o <<",">>)
        ELSE IF s[d] = "}" THEN Parsed("object", text \o <<"}">>, d + 1)
        ELSE SyntaxError

\* The elements of an array from position p on.
ParseElements(s, p, acc) ==
    LET v == ParseValue(s, p)
        d == SkipWs(s, v.next)
        text == acc \o v.text
    IN  IF ~v.ok \/ d > Len(s) THEN SyntaxError
        ELSE IF s[d] = "," THEN ParseElements(s, d + 1, text \o <<",">>)
        ELSE IF s[d] = "]" THEN Parsed("array", text \o <<"]">>, d + 1)
        ELSE SyntaxError

ParseValue(s, p) ==
    LET q == SkipWs(s, p)
        r == SkipWs(s, q + 1)
    IN  IF q > Len(s) THEN SyntaxError
        ELSE IF s[q] = "{"
             THEN IF r <= Len(s) /\ s[r] = "}"
                  THEN Parsed("object", <<"{", "}">>, r + 1)
                  ELSE ParseMembers(s, q + 1, <<"{">>)
        ELSE IF s[q] = "["
             THEN IF r <= Len(s) /\ s[r] = "]"
                  THEN Parsed("array", <<"[", "]">>, r + 1)
                  ELSE ParseElements(s, q + 1, <<"[">>)
        ELSE IF s[q] = Q THEN ParseString(s, q)
        ELSE IF s[q] = "-" \/ s[q] \in Digit THEN ParseNumber(s, q)
        ELSE IF s[q] = "t" THEN ParseWord(s, q, <<"t", "r", "u", "e">>, "true")
        ELSE IF s[q] = "f" THEN ParseWord(s, q, <<"f", "a", "l", "s", "e">>, "false")
        ELSE IF s[q] = "n" THEN ParseWord(s, q, <<"n", "u", "l", "l">>, "null")
        ELSE SyntaxError

\* JSON.parse(text): one value, and nothing but whitespace after it.
JSONparse(text) ==
    LET v == ParseValue(text, 1)
    IN  IF v.ok /\ SkipWs(text, v.next) = Len(text) + 1 THEN v ELSE SyntaxError

\* `if (parsed)`: null, false, 0, -0 and "" are falsy.
Truthy(v) ==
    /\ v.kind \notin {"null", "false"}
    /\ v.text \notin {<<"0">>, <<"-", "0">>, <<Q, Q>>}

\* ----------------------------------------------- parseModelReplyToJson
\* main.js:17-23: JSON.parse, with null for a text that does not parse.
tryParse(text) ==
    LET v == JSONparse(text)
    IN  IF v.ok THEN JsValue(v.kind, v.text) ELSE JsNull

\* text.match(/```json([\s\S]*?)```/i) for open = ```json, and
\* text.match(/```([\s\S]*?)```/i) for open = ``` (main.js:32): the
\* leftmost opening, the nearest closing after it, and group 1 between.
Match(text, open) ==
    LET p == IndexOf(LowerText(text), open, 1)
        q == IF p = 0 THEN 0 ELSE IndexOf(text, Fence, p + Len(open))
    IN  [found |-> q # 0,
         group |-> IF q = 0 THEN <<>> ELSE SubSeq(text, p + Len(open), q - 1)]

\* The sentinel with the text after the code block was taken out of it.
RawSentinelOfText(str, text) == JsValue("raw", text)

\* `{ raw: reply }` (main.js:14, 47): a record whose only field is raw.
RawSentinel(str, text) == JsValue("raw", str)

\* main.js:30-47, for a string that did not parse to a truthy value.
ExtractFromText(str) ==
    LET tagged == Match(str, Fence \o <<"j", "s", "o", "n">>)
        codeBlockMatch == IF tagged.found THEN tagged ELSE Match(str, Fence)
        text == IF codeBlockMatch.found THEN codeBlockMatch.group ELSE str
        firstBrace == IndexOf(text, <<"{">>, 1)
        lastBrace == LastIndexOf(text, "}", Len(text))
        jsonSlice == SubSeq(text, firstBrace, lastBrace)
    IN  IF firstBrace # 0 /\ lastBrace # 0 /\ lastBrace > firstBrace
             /\ Truthy(tryParse(jsonSlice))
        THEN tryParse(jsonSlice)
        ELSE RawSentinel(str, text)

\* parseModelReplyToJson (main.js:8-48).  The argument is a value with its
\* typeof: a string, an object (arrays are objects), or undefined.
parseModelReplyToJson(value) ==
    IF value.type = "object" THEN JsValue(value.kind, value.text)
    ELSE IF value.type # "string" \/ value.text = <<>>
    THEN RawSentinel(value.text, value.text)
    ELSE IF Truthy(tryParse(value.text)) THEN tryParse(value.text)
    ELSE ExtractFromText(value.text)

\* ------------------------------------------------------------ the replies
\* What chatSession.prompt may resolve with (main.js:280): a JSON text or
\* something short of one, alone or inside a code block, with or without
\* prose around it.
ObjectAge == <<"{", Q, "a", Q, ":", "4", "}">>
Bodies ==
    { <<>>,
      ObjectAge,
      <<"{", NL, " ", Q, "a", Q, " ", ":", " ", "n", "u", "l", "l", NL, "}">>,
      <<"{", "}">>,
      <<"{", Q, "a", Q, ":", "{", Q, "b", Q, ":", "0", "}", "}">>,
      <<"{", Q, "a", Q, ":", "4", ",", Q, "b", Q, ":", Q, "s", Q, "}">>,
      <<"{", Q, "a", Q, ":", Q, "}", Q, "}">>,
      <<"{", Q, "a", Q, ":", Q>> \o Fence \o <<Q, "}">>,
      <<"{", Q, "a", Q, ":", "4">>,
      <<"{", Q, "a", Q, ":", "4", ",", "}">>,
      <<"{", "a", ":", "4", "}">>,
      ObjectAge \o <<" ">> \o ObjectAge,
      <<"[", "4", "]">>,
      <<"[", "]">>,
      <<"[">> \o ObjectAge \o <<"]">>,
      <<"[">> \o ObjectAge \o <<",">> \o ObjectAge \o <<"]">>,
      <<"4">>, <<"-", "4", "0">>, <<"0">>, <<"0", "4">>,
      <<Q, "s", Q>>, <<Q, Q>>,
      <<"t", "r", "u", "e">>, <<"f", "a", "l", "s", "e">>, <<"n", "u", "l", "l">>,
      <<"o", "k">> }

\* The opening and the closing of the code block around the body.
Tag == <<"j", "s", "o", "n">>
Fences ==
    { <<<<>>, <<>>>>,
      <<Fence \o Tag \o <<NL>>, <<NL>> \o Fence>>,
      <<Fence \o <<"J", "S", "O", "N">>, Fence>>,
      <<Fence \o <<NL>>, <<NL>> \o Fence>>,
      <<Fence \o Tag \o <<NL>>, <<>>>> }

Before == { <<>>, <<"o", "k", ":", " ">>, <<"{", "o", "k", "}", " ">>,
            Fence \o <<"x">> \o Fence \o <<" ">> }
After == { <<>>, <<" ", "o", "k">>, <<" ", "}">>, <<" ">> \o Fence \o <<"x">> \o Fence }

TextReply(pre, fence, body, post) ==
    [type |-> "string", kind |-> "string", pre |-> pre, open |-> fence[1],
     body |-> body, close |-> fence[2], post |-> post]

\* A value that is not a string: an object or an array handed over as it
\* is, or undefined.
OtherReply(type, kind, body) ==
    [type |-> type, kind |-> kind, pre |-> <<>>, open |-> <<>>,
     body |-> body, close |-> <<>>, post |-> <<>>]

NoReply == OtherReply("undefined", "undefined", <<>>)

Replies ==
    {TextReply(pre, fence, body, post) :
        pre \in Before, fence \in Fences, body \in Bodies, post \in After}
    \cup {OtherReply("object", "object", ObjectAge),
          OtherReply("object", "array", <<"[", "4", "]">>),
          NoReply}

ReplyText(r) == r.pre \o r.open \o r.body \o r.close \o r.post
ReplyValue(r) == [type |-> r.type, kind |-> r.kind, text |-> ReplyText(r)]

\* parsed before parseModelReplyToJson has returned.
Pending == JsValue("pending", <<>>)

\* ------------------------------------------------------ readiness checks
\* The guard of initModel with its last test inverted.
AlreadyLoadedTypo == llamaModel # Null /\ llamaContext # Null /\ chatSession = Null

\* main.js:98, the guard of initModel.
AlreadyLoaded == llamaModel # Null /\ llamaContext # Null /\ chatSession # Null

\* A readiness check that looks at the model alone.
NotReadyModelOnly == llamaModel = Null

\* main.js:262, the handler's readiness check.
NotReady == llamaModel = Null \/ llamaContext = Null \/ chatSession = Null

Running == app = "ready"

\* The main process before app.whenReady() has resolved.
MainInit ==
    /\ platform \in {"darwin", "other"}
    /\ app = "starting"
    /\ windows = 0
    /\ closes = 0
    /\ awaiting = 0
    /\ modelFile \in BOOLEAN
    /\ llamaModel = Null
    /\ llamaContext = Null
    /\ chatSession = Null
    /\ im = [c \in Callers |-> "none"]
    /\ loaded = {}
    /\ history = [c \in Callers |-> {}]
    /\ inflight = {}
    /\ pc = [i \in Inv |-> "idle"]
    /\ filePaths = [i \in Inv |-> <<>>]
    /\ idx = [i \in Inv |-> 0]
    /\ nExtract = [i \in Inv |-> 0]
    /\ nPrompt = [i \in Inv |-> 0]
    /\ nTurn = [i \in Inv |-> 0]
    /\ emitted = [i \in Inv |-> <<>>]
    /\ cause = [i \in Inv |-> "none"]

\* HelloWorld.vue:8-14: the refs of a renderer that has just been loaded.
\* (resumeError is only displayed, and the result of an entry only
\* exported: neither is kept here.)
RendererInit ==
    /\ resumeItems = <<>>
    /\ importing = FALSE
    /\ cleared = FALSE

Init == MainInit /\ RendererInit /\ reply = NoReply /\ parsed = Pending

\* ------------------------------------------------------------ the handler
\* The `catch (err) { ...; throw err; }` of main.js:301-304: the invocation
\* rejects, whatever was thrown inside the try block.
Reject(i, why) ==
    /\ pc' = [pc EXCEPT ![i] = "rejected"]
    /\ cause' = [cause EXCEPT ![i] = why]
    /\ UNCHANGED <<filePaths, idx, nExtract, nPrompt, nTurn, emitted>>

\* The loop leaving one position early: the last file path is never
\* reached.
LoopHeadStopsEarly(i, paths, k, turns, sent) ==
    /\ filePaths' = [filePaths EXCEPT ![i] = paths]
    /\ nTurn' = [nTurn EXCEPT ![i] = turns]
    /\ emitted' = [emitted EXCEPT ![i] = sent]
    /\ UNCHANGED <<nPrompt, cause>>
    /\ IF k >= Len(paths)
       THEN /\ pc' = [pc EXCEPT ![i] = "resolved"]
            /\ UNCHANGED <<idx, nExtract>>
       ELSE /\ pc' = [pc EXCEPT ![i] = "extract"]
            /\ idx' = [idx EXCEPT ![i] = k]
            /\ nExtract' = [nExtract EXCEPT ![i] = @ + 1]

\* Head of `for (const filePath of filePaths)` (main.js:266) at position k of
\* the batch `paths`: past the end the handler returns {canceled: false}
\* (main.js:298), otherwise extractTextFromResumeFile is called and awaited
\* (main.js:267).
LoopHead(i, paths, k, turns, sent) ==
    /\ filePaths' = [filePaths EXCEPT ![i] = paths]
    /\ nTurn' = [nTurn EXCEPT ![i] = turns]
    /\ emitted' = [emitted EXCEPT ![i] = sent]
    /\ UNCHANGED <<nPrompt, cause>>
    /\ IF k > Len(paths)
       THEN /\ pc' = [pc EXCEPT ![i] = "resolved"]
            /\ UNCHANGED <<idx, nExtract>>
       ELSE /\ pc' = [pc EXCEPT ![i] = "extract"]
            /\ idx' = [idx EXCEPT ![i] = k]
            /\ nExtract' = [nExtract EXCEPT ![i] = @ + 1]

\* A handler that swallows the rejection of initModel, as the warm-up does.
AfterInitModelSwallowed(i, ok) ==
    LoopHead(i, filePaths[i], 1, nTurn[i], emitted[i])

\* The handler resumes after `await initModel()` (main.js:263).
AfterInitModel(i, ok) ==
    IF ok THEN LoopHead(i, filePaths[i], 1, nTurn[i], emitted[i])
          ELSE Reject(i, "init")

\* initModel is entered by caller c (main.js:97-101): the guard, then the
\* dynamic import of node-llama-cpp.
InitModelEntry(c) ==
    im' = [im EXCEPT ![c] = IF AlreadyLoaded THEN "noop" ELSE "import"]

\* main.js:262-266 with the batch `paths` in hand.
WithPaths(i, paths) ==
    IF NotReady
    THEN /\ InitModelEntry(i)
         /\ IF AlreadyLoaded
            THEN LoopHead(i, paths, 1, nTurn[i], emitted[i])
            ELSE /\ pc' = [pc EXCEPT ![i] = "initModel"]
                 /\ filePaths' = [filePaths EXCEPT ![i] = paths]
                 /\ UNCHANGED <<idx, nExtract, nPrompt, nTurn, emitted, cause>>
    ELSE /\ LoopHead(i, paths, 1, nTurn[i], emitted[i])
         /\ UNCHANGED im

\* ipcMain.handle('parse-resume-pdf') is invoked (main.js:243-266) with the
\* argument of ipcRenderer.invoke (preload.js:5): an array `items`, or
\* something that is not an array.  Invocations are numbered in the order
\* they arrive.
ParseResumePdf(i, isArray, items) ==
    /\ Running /\ windows > 0
    /\ pc[i] = "idle"
    /\ \A j \in Inv : j < i => pc[j] # "idle"
    /\ IF isArray /\ Len(items) > 0
       THEN WithPaths(i, items)
       ELSE /\ pc' = [pc EXCEPT ![i] = "dialog"]
            /\ UNCHANGED <<filePaths, idx, nExtract, nPrompt, nTurn, emitted, cause, im>>
    /\ UNCHANGED <<platform, app, windows, closes, modelFile, sessionVars, chatVars>>

\* Some caller of the API that preload.js:5 exposes invokes the handler
\* with any argument, at any time.
Invoke(i, isArray, items) ==
    /\ ParseResumePdf(i, isArray, items)
    /\ UNCHANGED awaiting

\* `extracting` of the renderer (HelloWorld.vue:91-101): set before the
\* invocation, cleared in the `finally` that runs when it settles.
Extracting == awaiting # 0 /\ pc[awaiting] \notin {"resolved", "rejected", "canceled"}

\* The user clicks the extract button of the renderer (HelloWorld.vue:73-103,
\* 151-157): the button is disabled while `extracting` is set or the list is
\* empty, and parseResume passes the paths of the list to the handler.
ParseResume(i, items) ==
    /\ ~Extracting
    /\ Len(items) > 0
    /\ ParseResumePdf(i, TRUE, items)
    /\ awaiting' = i

\* dialog.showOpenDialog settles (main.js:248-260).
\* The dialog's answer taken without looking at `canceled` or at the
\* number of paths.
DialogReturnUnchecked(i, canceled, dialogPaths) ==
    /\ Running
    /\ pc[i] = "dialog"
    /\ WithPaths(i, dialogPaths)
    /\ UNCHANGED <<envVars, sessionVars, chatVars>>

DialogReturn(i, canceled, dialogPaths) ==
    /\ Running
    /\ pc[i] = "dialog"
    /\ IF canceled \/ Len(dialogPaths) = 0
       THEN /\ pc' = [pc EXCEPT ![i] = "canceled"]
            /\ UNCHANGED <<filePaths, idx, nExtract, nPrompt, nTurn, emitted, cause, im>>
       ELSE WithPaths(i, dialogPaths)
    /\ UNCHANGED <<envVars, sessionVars, chatVars>>

\* The prompt submitted without `await`: the loop goes on to the next file
\* path while the model is still generating.
SubmitPromptNotAwaited(i) ==
    /\ chatSession # Null
    /\ history' = [history EXCEPT ![chatSession] = {<<i, idx[i]>>}]
    /\ inflight' = inflight \cup {<<i, idx[i], chatSession>>}
    /\ nPrompt' = [nPrompt EXCEPT ![i] = @ + 1]
    /\ UNCHANGED <<filePaths, nTurn, emitted, cause>>
    /\ IF idx[i] + 1 > Len(filePaths[i])
       THEN /\ pc' = [pc EXCEPT ![i] = "resolved"]
            /\ UNCHANGED <<idx, nExtract>>
       ELSE /\ pc' = [pc EXCEPT ![i] = "extract"]
            /\ idx' = [idx EXCEPT ![i] = @ + 1]
            /\ nExtract' = [nExtract EXCEPT ![i] = @ + 1]

\* main.js:269-280: the prompt is built, chatSession.resetChatHistory() clears
\* the conversation and chatSession.prompt(prompt) is called and awaited.
SubmitPrompt(i) ==
    IF chatSession = Null
    THEN /\ Reject(i, "session")
         /\ UNCHANGED chatVars
    ELSE /\ history' = [history EXCEPT ![chatSession] = {<<i, idx[i]>>}]
         /\ inflight' = inflight \cup {<<i, idx[i], chatSession>>}
         /\ pc' = [pc EXCEPT ![i] = "prompt"]
         /\ nPrompt' = [nPrompt EXCEPT ![i] = @ + 1]
         /\ UNCHANGED <<filePaths, idx, nExtract, nTurn, emitted, cause>>

\* extractTextFromResumeFile settles (main.js:50-65, 267): it rejects when
\* fs.promises.readFile or the decoder of the extension rejects, and resolves
\* with the text otherwise ('' for an extension that is neither .pdf nor
\* .docx).  Its two awaits read and write no state of the module, so they
\* are one step here.  On the text the handler goes on to the prompt.
ExtractDone(i, ok) ==
    /\ Running
    /\ pc[i] = "extract"
    /\ IF ok THEN SubmitPrompt(i)
             ELSE Reject(i, "extract") /\ UNCHANGED chatVars
    /\ UNCHANGED <<envVars, sessionVars, im>>

\* A turn that is over, whichever document it was for: once its prompt has
\* settled, what a document left in a conversation is foreign to every
\* later document alike.
Stale == <<0, 0>>

\* chatSession.prompt settles (main.js:280-296): the turn stays in the
\* conversation of the session it was submitted on, the reply is parsed, the
\* 'resume-item-parsed' event is sent to the first window when there is one,
\* and the loop goes on with the next file path.
PromptDone(i, ok) ==
    /\ Running
    /\ pc[i] = "prompt"
    /\ inflight' = {e \in inflight : ~(e[1] = i /\ e[2] = idx[i])}
    /\ history' = [s \in Callers |->
                      IF <<i, idx[i]>> \in history[s] \/ <<i, idx[i], s>> \in inflight
                      THEN (history[s] \ {<<i, idx[i]>>}) \cup {Stale}
                      ELSE history[s]]
    /\ IF ok
       THEN LoopHead(i, filePaths[i], idx[i] + 1, nTurn[i] + 1,
                     IF windows > 0
                     THEN Append(emitted[i], filePaths[i][idx[i]])
                     ELSE emitted[i])
       ELSE Reject(i, "prompt")
    /\ UNCHANGED <<envVars, sessionVars, im>>

\* -------------------------------------------------------------- initModel
\* The caller of call c resumes when the call settles: the handler that
\* awaits it (main.js:263), or the warm-up's .catch (main.js:144-146).
Settle(c, ok) ==
    IF c \in Inv /\ pc[c] = "initModel"
    THEN AfterInitModel(c, ok)
    ELSE UNCHANGED handlerVars

\* `await import('node-llama-cpp')` settles; resolveModelPath() throws when
\* the model file is missing (main.js:101-106, 86-95); getLlama() is called.
ImportDone(c, ok) ==
    /\ Running
    /\ im[c] = "import"
    /\ IF ok /\ modelFile
       THEN im' = [im EXCEPT ![c] = "loadModel"] /\ UNCHANGED handlerVars
       ELSE im' = [im EXCEPT ![c] = "failed"] /\ Settle(c, FALSE)
    /\ UNCHANGED <<envVars, sessionVars, chatVars>>

\* getLlama() and then llama.loadModel settle (main.js:108-113; nothing of
\* the module is read or written between the two): llamaModel is assigned
\* and createContext is called, or one of the two rejected.
LoadModelDone(c, ok) ==
    /\ Running
    /\ im[c] = "loadModel"
    /\ IF ok
       THEN /\ llamaModel' = c
            /\ loaded' = loaded \cup {c}
            /\ im' = [im EXCEPT ![c] = "createContext"]
            /\ UNCHANGED handlerVars
       ELSE /\ im' = [im EXCEPT ![c] = "failed"]
            /\ Settle(c, FALSE)
            /\ UNCHANGED <<llamaModel, loaded>>
    /\ UNCHANGED <<envVars, llamaContext, chatSession, chatVars>>

\* An initModel that resolves although the construction of the session
\* threw: chatSession is left as it was.
CreateContextDoneSwallowed(c, result) ==
    /\ Running
    /\ im[c] = "createContext"
    /\ llamaContext' = IF result = "context" THEN llamaContext ELSE c
    /\ chatSession' = IF result = "ok" THEN c ELSE chatSession
    /\ im' = [im EXCEPT ![c] = IF result = "context" THEN "failed" ELSE "ok"]
    /\ Settle(c, result # "context")
    /\ UNCHANGED <<envVars, llamaModel, loaded, chatVars>>

\* llamaModel.createContext settles (main.js:113-117): "context" when it
\* rejects, "session" when the context is assigned and the construction of
\* LlamaChatSession throws, "ok" when the session is constructed.
CreateContextDone(c, result) ==
    /\ Running
    /\ im[c] = "createContext"
    /\ llamaContext' = IF result = "context" THEN llamaContext ELSE c
    /\ chatSession' = IF result = "ok" THEN c ELSE chatSession
    /\ im' = [im EXCEPT ![c] = IF result = "ok" THEN "ok" ELSE "failed"]
    /\ Settle(c, result = "ok")
    /\ UNCHANGED <<envVars, llamaModel, loaded, chatVars>>

\* ----------------------------------------------------------- environment
\* app.whenReady().then(...) (main.js:140-146): the window is created and
\* the model is pre-initialised without being awaited.
WhenReady ==
    /\ app = "starting"
    /\ app' = "ready"
    /\ windows' = 1
    /\ InitModelEntry(WarmUp)
    /\ UNCHANGED <<platform, closes, awaiting, modelFile, sessionVars, chatVars, handlerVars>>

\* app.quit() (main.js:167): with the process everything it held is gone;
\* what is left is the state of a process that is not running.
Quit ==
    /\ app' = "quit"
    /\ windows' = 0
    /\ awaiting' = 0
    /\ llamaModel' = Null /\ llamaContext' = Null /\ chatSession' = Null
    /\ im' = [c \in Callers |-> "none"]
    /\ loaded' = {}
    /\ history' = [c \in Callers |-> {}]
    /\ inflight' = {}
    /\ pc' = [i \in Inv |-> "idle"]
    /\ filePaths' = [i \in Inv |-> <<>>]
    /\ idx' = [i \in Inv |-> 0]
    /\ nExtract' = [i \in Inv |-> 0]
    /\ nPrompt' = [i \in Inv |-> 0]
    /\ nTurn' = [i \in Inv |-> 0]
    /\ emitted' = [i \in Inv |-> <<>>]
    /\ cause' = [i \in Inv |-> "none"]
    /\ UNCHANGED <<platform, modelFile, closes>>

\* The user closes the window, and its renderer is gone with it:
\* 'window-all-closed' quits the application except on macOS
\* (main.js:166-168).
CloseWindow ==
    /\ Running
    /\ windows > 0
    /\ IF platform = "darwin"
       THEN /\ windows' = windows - 1
            /\ closes < MaxCloses
            /\ closes' = closes + 1
            /\ awaiting' = 0
            /\ UNCHANGED <<platform, app, modelFile, sessionVars, im, chatVars, handlerVars>>
       ELSE Quit

\* app.on('activate') re-creates the window on macOS (main.js:157-163); the
\* new window loads a fresh renderer (main.js:119-138).
Activate ==
    /\ Running
    /\ platform = "darwin"
    /\ windows = 0
    /\ windows' = 1
    /\ UNCHANGED <<platform, app, closes, awaiting, modelFile, sessionVars, im, chatVars, handlerVars>>

\* The user puts the model file where the error message of main.js:91 says.
PlaceModelFile ==
    /\ app # "quit"
    /\ ~modelFile
    /\ modelFile' = TRUE
    /\ UNCHANGED <<platform, app, windows, closes, awaiting, sessionVars, im, chatVars, handlerVars>>

InitModelStep ==
    \E c \in Callers :
        \/ \E ok \in BOOLEAN : ImportDone(c, ok)
        \/ \E ok \in BOOLEAN : LoadModelDone(c, ok)
        \/ \E result \in {"ok", "context", "session"} : CreateContextDone(c, result)

NextAnyCaller ==
    \/ WhenReady /\ UNCHANGED <<replyVars, rendererVars>>
    \/ CloseWindow /\ UNCHANGED <<replyVars, rendererVars>>
    \/ Activate /\ UNCHANGED <<replyVars, rendererVars>>
    \/ PlaceModelFile /\ UNCHANGED <<replyVars, rendererVars>>
    \/ InitModelStep /\ UNCHANGED <<replyVars, rendererVars>>
    \/ \E i \in Inv, isArray \in BOOLEAN, items \in Batches : Invoke(i, isArray, items) /\ UNCHANGED <<replyVars, rendererVars>>
    \/ \E i \in Inv, canceled \in BOOLEAN, dialogPaths \in Batches : DialogReturn(i, canceled, dialogPaths) /\ UNCHANGED <<replyVars, rendererVars>>
    \/ \E i \in Inv, ok \in BOOLEAN : ExtractDone(i, ok) /\ UNCHANGED <<replyVars, rendererVars>>
    \/ \E i \in Inv, ok \in BOOLEAN : PromptDone(i, ok) /\ UNCHANGED <<replyVars, rendererVars>>

\* The main process under every caller of the exposed API.
SpecAnyCaller == Init /\ [][NextAnyCaller]_vars

\* The main process with the renderer of this repository as its only caller.
Next ==
    \/ WhenReady /\ UNCHANGED <<replyVars, rendererVars>>
    \/ CloseWindow /\ UNCHANGED <<replyVars, rendererVars>>
    \/ Activate /\ UNCHANGED <<replyVars, rendererVars>>
    \/ PlaceModelFile /\ UNCHANGED <<replyVars, rendererVars>>
    \/ InitModelStep /\ UNCHANGED <<replyVars, rendererVars>>
    \/ \E i \in Inv, items \in Batches : ParseResume(i, items) /\ UNCHANGED <<replyVars, rendererVars>>
    \/ \E i \in Inv, ok \in BOOLEAN : ExtractDone(i, ok) /\ UNCHANGED <<replyVars, rendererVars>>
    \/ \E i \in Inv, ok \in BOOLEAN : PromptDone(i, ok) /\ UNCHANGED <<replyVars, rendererVars>>

Spec == Init /\ [][Next]_vars

\* ------------------------------------------- initModel called on its own
\* A caller other than the handler calls initModel (main.js:97), at any
\* time and as often as there are callers.
CallInitModel(c) ==
    /\ Running
    /\ im[c] = "none"
    /\ InitModelEntry(c)
    /\ UNCHANGED <<envVars, sessionVars, chatVars, handlerVars>>

NextInitModel ==
    \/ WhenReady /\ UNCHANGED <<replyVars, rendererVars>>
    \/ PlaceModelFile /\ UNCHANGED <<replyVars, rendererVars>>
    \/ InitModelStep /\ UNCHANGED <<replyVars, rendererVars>>
    \/ \E c \in Inv : CallInitModel(c) /\ UNCHANGED <<replyVars, rendererVars>>

SpecInitModel == Init /\ [][NextInitModel]_vars

\* ------------------------------------- the handler called without paths
\* 'parse-resume-pdf' invoked with something that is not an array, or with
\* an empty array (main.js:245-247).
InvokeWithoutPaths(i, isArray, items) ==
    /\ ~isArray \/ Len(items) = 0
    /\ Invoke(i, isArray, items)

NextWithoutPaths ==
    \/ WhenReady /\ UNCHANGED <<replyVars, rendererVars>>
    \/ CloseWindow /\ UNCHANGED <<replyVars, rendererVars>>
    \/ Activate /\ UNCHANGED <<replyVars, rendererVars>>
    \/ PlaceModelFile /\ UNCHANGED <<replyVars, rendererVars>>
    \/ InitModelStep /\ UNCHANGED <<replyVars, rendererVars>>
    \/ \E i \in Inv, isArray \in BOOLEAN, items \in Batches : InvokeWithoutPaths(i, isArray, items) /\ UNCHANGED <<replyVars, rendererVars>>
    \/ \E i \in Inv, canceled \in BOOLEAN, dialogPaths \in Batches : DialogReturn(i, canceled, dialogPaths) /\ UNCHANGED <<replyVars, rendererVars>>
    \/ \E i \in Inv, ok \in BOOLEAN : ExtractDone(i, ok) /\ UNCHANGED <<replyVars, rendererVars>>
    \/ \E i \in Inv, ok \in BOOLEAN : PromptDone(i, ok) /\ UNCHANGED <<replyVars, rendererVars>>

\* The main process when every invocation of the handler comes without
\* paths.
SpecWithoutPaths == Init /\ [][NextWithoutPaths]_vars

\* ------------------------------------------------------- the renderer
\* The callback of onResumeItemParsed (HelloWorld.vue:18-30) on the list:
\* the entry of the path is updated in place, a path without entry is
\* pushed.
OnResumeItemParsed(items, filePath) ==
    IF \E k \in 1..Len(items) : items[k] = filePath
    THEN items
    ELSE Append(items, filePath)

\* Click on the import button (HelloWorld.vue:40-50, enabled by line 147):
\* the list is emptied and the file dialog is awaited.
ImportResumes ==
    /\ Running
    /\ windows > 0
    /\ ~importing /\ ~Extracting
    /\ resumeItems' = <<>>
    /\ importing' = TRUE
    /\ cleared' = FALSE
    /\ UNCHANGED <<envVars, sessionVars, im, chatVars, handlerVars>>

\* 'select-resume-files' resolves (main.js:225-241, HelloWorld.vue:51-70):
\* a cancelled dialog and a selection of more than 10 leave the list as it
\* is, any other selection becomes the list.
SelectResumeFilesDone(canceled, selected) ==
    /\ Running
    /\ windows > 0
    /\ importing
    /\ importing' = FALSE
    /\ IF canceled \/ Len(selected) = 0 \/ Len(selected) > MaxImport
       THEN UNCHANGED <<resumeItems, cleared>>
       ELSE resumeItems' = selected /\ cleared' = FALSE
    /\ UNCHANGED <<envVars, sessionVars, im, chatVars, handlerVars>>

\* Click on the parse button (HelloWorld.vue:73-94, enabled by line 154):
\* the file paths of the list are handed to 'parse-resume-pdf'.
ParseResumeItems(i) ==
    /\ ~importing
    /\ ParseResume(i, resumeItems)
    /\ UNCHANGED rendererVars

\* Click on the clear button (HelloWorld.vue:135-138, enabled by line 170).
ClearResumes ==
    /\ Running
    /\ windows > 0
    /\ resumeItems # <<>>
    /\ resumeItems' = <<>>
    /\ cleared' = TRUE
    /\ UNCHANGED <<envVars, sessionVars, im, chatVars, handlerVars, importing>>

\* chatSession.prompt settles; the event the handler sends (main.js:289-295)
\* goes to the renderer of the window that is open now, which runs its
\* callback on it.
PromptDoneToRenderer(i, ok) ==
    /\ PromptDone(i, ok)
    /\ resumeItems' = IF ok /\ windows > 0
                      THEN OnResumeItemParsed(resumeItems, filePaths[i][idx[i]])
                      ELSE resumeItems
    /\ UNCHANGED <<importing, cleared>>

\* The window is closed and its renderer is gone; the window 'activate'
\* creates later loads a renderer of its own.
CloseWindowAndRenderer ==
    /\ CloseWindow
    /\ resumeItems' = <<>>
    /\ importing' = FALSE
    /\ cleared' = FALSE

NextRenderer ==
    \/ WhenReady /\ UNCHANGED <<replyVars, rendererVars>>
    \/ CloseWindowAndRenderer /\ UNCHANGED replyVars
    \/ Activate /\ UNCHANGED <<replyVars, rendererVars>>
    \/ PlaceModelFile /\ UNCHANGED <<replyVars, rendererVars>>
    \/ InitModelStep /\ UNCHANGED <<replyVars, rendererVars>>
    \/ ImportResumes /\ UNCHANGED replyVars
    \/ \E canceled \in BOOLEAN, selected \in Selections : SelectResumeFilesDone(canceled, selected) /\ UNCHANGED replyVars
    \/ \E i \in 1..NumParse : ParseResumeItems(i) /\ UNCHANGED replyVars
    \/ ClearResumes /\ UNCHANGED replyVars
    \/ \E i \in Inv, ok \in BOOLEAN : ExtractDone(i, ok) /\ UNCHANGED <<replyVars, rendererVars>>
    \/ \E i \in Inv, ok \in BOOLEAN : PromptDoneToRenderer(i, ok) /\ UNCHANGED replyVars

\* The main process and the renderer of the window.
SpecRenderer == Init /\ [][NextRenderer]_vars

\* ------------------------------------------ parseModelReplyToJson alone
\* `const parsed = parseModelReplyToJson(reply)` (main.js:282).
Normalize ==
    /\ parsed = Pending
    /\ parsed' = parseModelReplyToJson(ReplyValue(reply))
    /\ UNCHANGED <<envVars, sessionVars, im, chatVars, handlerVars, reply, rendererVars>>

InitNormalize == MainInit /\ RendererInit /\ reply \in Replies /\ parsed = Pending

NextNormalize == Normalize

\* parseModelReplyToJson applied to every reply of Replies.
SpecNormalize == InitNormalize /\ [][NextNormalize]_vars

\* ================================================================ claims
Settled(i) == pc[i] \in {"resolved", "rejected"}

\* The sessions a prompt was ever submitted on: a conversation is emptied
\* only by the reset that precedes a prompt.
Prompted == {s \in Callers : history[s] # {}}

\* The initModel calls that completed the whole load.
Completed == {c \in Callers : im[c] = "ok"}

\* C1: once the handler has settled for a batch of N file paths on which
\* the session was ready, exactly N 'resume-item-parsed' events were sent,
\* the k-th carrying the k-th path.
C1_OneEventPerDocument ==
    \A i \in Inv :
        Settled(i) /\ cause[i] # "init" => emitted[i] = filePaths[i]

\* C2: in a batch of three documents whose second document failed (in
\* extraction or in inference), the handler does not settle before the
\* third document was run through the pipeline and documents 1 and 3 have
\* their events.
C2_FailureIsolated ==
    \A i \in Inv :
        /\ Settled(i)
        /\ Len(filePaths[i]) = 3
        /\ cause[i] \in {"extract", "prompt"}
        /\ idx[i] = 2
        => nExtract[i] = 3 /\ Len(emitted[i]) >= 2

\* C3: the handler rejects only when the session could not be made ready;
\* a per-document error never reaches the caller as a rejection.
C3_RejectsOnlyOnReadiness ==
    \A i \in Inv : pc[i] = "rejected" => cause[i] = "init"

\* C4: at most one chatSession.prompt call is in flight at any time.
C4_OnePromptInFlight == Cardinality(inflight) <= 1

C6_SingleSession ==
    /\ Cardinality(loaded) <= 1
    /\ Cardinality(Prompted) <= 1

\* C7: a call of initModel made after a call has completed returns at the
\* guard: it loads nothing, creates nothing and leaves llamaModel,
\* llamaContext and chatSession as they are; and when the only call that
\* went past the guard has completed, exactly one model was loaded.
C7_SecondCallIsNoOp ==
    /\ [][\A c \in Callers :
            im[c] = "none" /\ im'[c] # "none" /\ Completed # {}
            => /\ im'[c] = "noop"
               /\ UNCHANGED <<llamaModel, llamaContext, chatSession, loaded>>]_vars
    /\ [](\A c \in Callers :
            im[c] = "noop"
            => c \notin loaded /\ c \notin {llamaModel, llamaContext, chatSession})
    /\ [](\A c \in Callers :
            im[c] = "ok" /\ (\A d \in Callers \ {c} : im[d] \in {"none", "noop"})
            => loaded = {c})

\* C7 witness: a second call has returned at the guard after the first one
\* loaded the model.
C7_Witness ==
    \E c, d \in Callers :
        /\ im[c] = "ok" /\ im[d] = "noop"
        /\ loaded = {c}
        /\ chatSession = c

\* C8: a prompt in flight has the conversation of its session to itself:
\* the history was reset for it, holds nothing of any other document, and
\* is not reset under it.
C8_FreshConversation ==
    \A e \in inflight : history[e[3]] = {<<e[1], e[2]>>}

\* C9: when the initModel call of an invocation fails, the invocation
\* rejects with no event sent, no text extracted and no prompt submitted.
C9_ReadinessFailureIsFatal ==
    \A i \in Inv :
        im[i] = "failed" \/ cause[i] = "init"
        => /\ pc[i] = "rejected"
           /\ im[i] = "failed" /\ cause[i] = "init"
           /\ emitted[i] = <<>>
           /\ nExtract[i] = 0 /\ nPrompt[i] = 0 /\ nTurn[i] = 0
           /\ \A e \in inflight : e[1] # i

\* C9 witness: an invocation with a batch in hand was rejected because the
\* model file was missing.
C9_Witness ==
    \E i \in Inv :
        /\ pc[i] = "rejected" /\ cause[i] = "init"
        /\ Len(filePaths[i]) > 0
        /\ ~modelFile

\* C10: after a failed initModel call the session counts as loaded exactly
\* when some call has completed the whole load, the session in use is then
\* one a completed call constructed on its own model and context, and a
\* handler that passes the readiness check while no call has completed
\* starts the full load again; a call that completes leaves its own context
\* and session in the globals.
C10_RetryAfterFailure ==
    /\ []((\E c \in Callers : im[c] = "failed")
          => /\ ~NotReady <=> Completed # {}
             /\ chatSession # Null
                => chatSession \in Completed /\ chatSession \in loaded
                   /\ llamaContext # Null /\ llamaModel # Null)
    /\ [][\A i \in Inv :
            /\ \E c \in Callers : im[c] = "failed"
            /\ Completed = {}
            /\ pc[i] \in {"idle", "dialog"}
            /\ pc'[i] \notin {"idle", "dialog", "canceled"}
            => pc'[i] = "initModel" /\ im'[i] = "import"]_vars
    /\ [][\A c \in Callers :
            im[c] # "ok" /\ im'[c] = "ok"
            => chatSession' = c /\ llamaContext' = c /\ c \in loaded]_vars

\* C10 witness: the warm-up failed after it had loaded its model, a later
\* call of a handler loaded again and the handler prompts on the session
\* that call constructed.
C10_Witness ==
    \E i \in Inv :
        /\ im[WarmUp] = "failed" /\ WarmUp \in loaded
        /\ im[i] = "ok"
        /\ chatSession = i /\ llamaContext = i /\ llamaModel = i
        /\ \E k \in 1..MaxBatch : <<i, k, i>> \in inflight

\* ------------------------------------------------ the reply normaliser
\* The reply is a string and parseModelReplyToJson has returned.
Normalized == parsed # Pending /\ reply.type = "string"

ValidJson(text) == JSONparse(text).ok

HasBrace(text) == IndexOf(text, <<"{">>, 1) # 0 \/ IndexOf(text, <<"}">>, 1) # 0

\* The span from the first "{" to the last "}" of a text, empty without one.
BraceSpan(text) ==
    LET firstBrace == IndexOf(text, <<"{">>, 1)
        lastBrace == LastIndexOf(text, "}", Len(text))
    IN  IF firstBrace # 0 /\ lastBrace > firstBrace
        THEN SubSeq(text, firstBrace, lastBrace)
        ELSE <<>>

\* The reply is one code block, opened and closed, between two proses that
\* hold no code block of their own.
FencedInProse ==
    /\ reply.open # <<>> /\ reply.close # <<>>
    /\ reply.pre # <<>> /\ reply.post # <<>>
    /\ IndexOf(reply.pre \o reply.post, <<Backtick>>, 1) = 0

\* C11: for every reply text parseModelReplyToJson returns a record: an
\* object of structured fields or the raw sentinel, never a number, a
\* string, a boolean, an array or null.
C11_RecordShaped == Normalized => parsed.kind \in {"object", "raw"}

\* C12: for a reply that is not valid JSON itself and that wraps valid JSON
\* in a code block between proses, parseModelReplyToJson returns what
\* parsing the contents of the code block gives.
C12_FencedBlock ==
    Normalized /\ FencedInProse /\ ~ValidJson(ReplyText(reply)) /\ ValidJson(reply.body)
        => parsed = tryParse(reply.body)

\* C13: for a reply that does not parse as it is and whose span from the
\* first "{" to the last "}" parses as an object, parseModelReplyToJson
\* returns that object, whatever prose or code block the reply holds
\* besides.
C13_BraceSpan ==
    Normalized /\ ~ValidJson(ReplyText(reply))
               /\ JSONparse(BraceSpan(ReplyText(reply))).kind = "object"
        => parsed = tryParse(BraceSpan(ReplyText(reply)))

\* C14: for a reply that holds no brace and is not valid JSON,
\* parseModelReplyToJson returns the record whose only field, raw, is the
\* reply as it came, code block markers included.
C14_TotalFailureFallback ==
    Normalized /\ ~HasBrace(ReplyText(reply)) /\ ~ValidJson(ReplyText(reply))
        => parsed = JsValue("raw", ReplyText(reply))

\* A reply without braces whose code block was found and taken out before
\* the fallback: what comes back still holds the whole reply.
C14_Witness ==
    /\ Normalized
    /\ ~HasBrace(ReplyText(reply)) /\ ~ValidJson(ReplyText(reply))
    /\ Match(ReplyText(reply), Fence).found
    /\ Match(ReplyText(reply), Fence).group # ReplyText(reply)
    /\ parsed = JsValue("raw", ReplyText(reply))
C19_SessionConstructedAtUse ==
    /\ [](\A i \in Inv : cause[i] # "session")
    /\ [](\A e \in inflight : e[3] \in Completed /\ e[3] \in loaded)
    /\ [][\A i \in Inv :
            nPrompt'[i] > nPrompt[i] =>
                /\ chatSession # Null
                /\ chatSession \in Completed \cap loaded
                /\ llamaModel # Null /\ llamaContext # Null
                /\ \E e \in inflight' \ inflight : e[1] = i /\ e[3] = chatSession]_vars

\* A prompt runs on the session the handler's own initModel constructed
\* after the warm-up had failed.
C19_Witness ==
    \E e \in inflight :
        /\ im[WarmUp] = "failed"
        /\ e[3] \in Inv
        /\ chatSession = e[3]
\* ------------------------------------------------------------ the renderer
\* C18: the resume list of the renderer never holds more than 10 entries,
\* and every path list it hands to parseResumePdf has at least 1 and at
\* most 10 entries.
C18_BatchSizeEnforced ==
    /\ Len(resumeItems) <= MaxImport
    /\ \A i \in Inv :
           pc[i] # "idle" => Len(filePaths[i]) >= 1 /\ Len(filePaths[i]) <= MaxImport

\* C20: once clearResumes has run, the resume list stays empty until the
\* next import: no event of a batch in flight adds an entry again.
C20_ClearedStaysEmpty == cleared => resumeItems = <<>>
====
